---------------------------- MODULE Spec2Model ----------------------------
(***************************************************************************)
(* A model of idena_balance_timeline.py: the paginated transaction fetch,  *)
(* the cached, concurrent detail resolver, the classifier (build_records)  *)
(* and the balance reconstructor (reconstruct_balance), composed as main() *)
(* composes them.                                                          *)
(*                                                                         *)
(* JSON values are tagged records: Null, JInt, JFloat, NumStr (a string    *)
(* holding a decimal numeral), BadStr (any other string), Txt (a string    *)
(* used as text), JBool, JList, and JDict (an object: a function from its  *)
(* keys).  A Decimal is [c, e], the value c * 10^e, as Python's decimal    *)
(* keeps a coefficient and an exponent; the values of the model stay far   *)
(* below the 28 significant digits of getcontext().prec, so no operation   *)
(* of the model rounds.  NaN and the infinities are outside the value      *)
(* domain, as are ISO-8601 and 13-digit timestamps.                        *)
(***************************************************************************)
EXTENDS Integers, Sequences, FiniteSets, TLC

VARIABLES
    pc,            \* position of main(): the stage that runs next
    exit_code,     \* NoExit while running, else the status of sys.exit
    args,          \* the parsed command line
    written,       \* the output files written so far
    feed,          \* environment: the list endpoint's payload per token sent
    token,         \* fetch_all_txs: token
    page,          \* fetch_all_txs: page
    out,           \* fetch_all_txs: out
    attempt,       \* fetch_all_txs: attempt of the running retry loop
    outcome,       \* fetch_all_txs: what the last list request came to
    reqlog,        \* history: every list request sent, [page, token, ok]
    pagelog,       \* history: every page fetched, [sent, got, next, items]
    items,         \* main: items
    hashes,        \* main: hashes (after dict.fromkeys)
    endpoint,      \* environment: the detail endpoint's answer per hash
    cache,         \* the cache directory: file state per hash
    force,         \* fetch_details_for_hashes: force_refresh of this run
    fut,           \* the futures of this run, one per index of hashes:
                   \*   st, attempt, detail of load_or_fetch, and as history
                   \*   reqs (requests sent), last (the last answer), w (the write)
    results,       \* fetch_details_for_hashes: results
    run,           \* which run of the resolver this is (1, 2)
    first,         \* history: what the first run returned and wrote
    cache0,        \* history: the cache directory as this run found it
    details,       \* main: details
    recs,          \* main: recs
    series,        \* main: series
    order,         \* history: series[k] was made from recs[order[k]]
    curr_balance,  \* main: curr_balance
    start_bal,     \* reconstruct_balance: start_bal
    balreq         \* history: the balance queries sent, each with its answer

mainVars     == <<pc, exit_code, args, written>>
pagerVars    == <<feed, token, page, out, attempt, outcome, reqlog, pagelog>>
resolverVars == <<endpoint, cache, force, fut, results, run, first, cache0>>
reconVars    == <<items, hashes, details, recs, series, order, curr_balance,
                  start_bal, balreq>>
vars == <<mainVars, pagerVars, resolverVars, reconVars>>

---------------------------------------------------------------------------
(* Bounds of the model. *)

MaxItems == 3      \* longest item list handed to build_records
MaxPages == 3      \* the list endpoint serves at most this many pages

---------------------------------------------------------------------------
(* JSON values and Python's None. *)

Null       == [t |-> "null"]
JInt(n)    == [t |-> "int", c |-> n]
JBool(b)   == [t |-> "bool", b |-> b]
JFloat(c, e) == [t |-> "float", c |-> c, e |-> e]
NumStr(c, e, plus) == [t |-> "numstr", c |-> c, e |-> e, plus |-> plus]
BadStr     == [t |-> "badstr"]
Txt(s)     == [t |-> "txt", s |-> s]
JList(l)   == [t |-> "list", l |-> l]
JDict(d)   == [t |-> "dict", d |-> d]

IsDict(v) == v.t = "dict"
IsStr(v)  == v.t \in {"numstr", "badstr", "txt"}

Min(a, b) == IF a <= b THEN a ELSE b
Max(a, b) == IF a >= b THEN a ELSE b

RECURSIVE Pow10(_)
Pow10(n) == IF n <= 0 THEN 1 ELSE 10 * Pow10(n - 1)

(* str.lower() on the strings of the model: keys, aliases and addresses. *)
Lower(s) ==
    CASE s = "0xAbC" -> "0xabc"
      [] s = "0XABC" -> "0xabc"
      [] s = "0xDeF" -> "0xdef"
      [] s = "blockHeight" -> "blockheight"
      [] s = "BlockHeight" -> "blockheight"
      [] s = "continuationToken" -> "continuationtoken"
      [] s = "ContinuationToken" -> "continuationtoken"
      [] s = "txHash" -> "txhash"
      [] s = "transactionHash" -> "transactionhash"
      [] s = "txId" -> "txid"
      [] s = "Items" -> "items"
      [] s = "Amount" -> "amount"
      [] OTHER -> s

(* str.strip() on the strings of the model. *)
Strip(s) ==
    CASE s = " h2 " -> "h2"
      [] s = "  " -> ""
      [] OTHER -> s

---------------------------------------------------------------------------
(* Decimal arithmetic (exact: see the head of the module). *)

Dec(c, e) == [c |-> c, e |-> e]
DecZero   == Dec(0, 0)
Coef(d, e) == d.c * Pow10(d.e - e)          \* d's coefficient at exponent e <= d.e
DecAdd(a, b) == LET e == Min(a.e, b.e) IN Dec(Coef(a, e) + Coef(b, e), e)
DecNeg(a)    == Dec(0 - a.c, a.e)
DecSub(a, b) == LET e == Min(a.e, b.e) IN Dec(Coef(a, e) - Coef(b, e), e)
DecEq(a, b)  == LET e == Min(a.e, b.e) IN Coef(a, e) = Coef(b, e)
DecSign(a)   == IF a.c > 0 THEN 1 ELSE IF a.c < 0 THEN -1 ELSE 0

(* str(Decimal): the numeral of the same coefficient and exponent. *)
Str(d) == NumStr(d.c, d.e, FALSE)

(* D(x): None -> 0; int/float -> Decimal(str(x)) (a bool prints as "True",    *)
(* which no Decimal parses); str -> Decimal(x.strip()), 0 when it does not    *)
(* parse; anything else -> 0.                                                 *)
D(x) ==
    CASE x.t = "null"   -> DecZero
      [] x.t = "bool"   -> DecZero
      [] x.t = "int"    -> Dec(x.c, 0)
      [] x.t = "float"  -> Dec(x.c, x.e)
      [] x.t = "numstr" -> Dec(x.c, x.e)
      [] OTHER          -> DecZero

(* int(float) and int(str): truncation toward zero. *)
Trunc(c, e) ==
    IF e >= 0 THEN c * Pow10(e)
    ELSE IF c >= 0 THEN c \div Pow10(0 - e) ELSE 0 - ((0 - c) \div Pow10(0 - e))

(* i(v, default) *)
ToInt(v, default) ==
    CASE v.t = "null"   -> default
      [] v.t = "bool"   -> IF v.b THEN 1 ELSE 0
      [] v.t = "int"    -> v.c
      [] v.t = "float"  -> Trunc(v.c, v.e)
      [] v.t = "numstr" -> IF v.e = 0 THEN v.c ELSE default   \* int("1.5") raises
      [] OTHER          -> default

(* epoch(ts): a string must be all digits (no sign, no point) to be read as *)
(* a number; the other strings of the model parse as no date either.        *)
Epoch(ts) ==
    CASE ts.t = "null"   -> 0
      [] ts.t = "int"    -> ts.c
      [] ts.t = "bool"   -> IF ts.b THEN 1 ELSE 0
      [] ts.t = "float"  -> Trunc(ts.c, ts.e)
      [] ts.t = "numstr" -> IF ts.e = 0 /\ ts.c >= 0 /\ ~ts.plus THEN ts.c ELSE 0
      [] OTHER           -> 0

(* get_ci(dct, *names): the value under the first alias the dict holds in any *)
(* case, None when it holds none (or when dct is no dict).                    *)
RECURSIVE GetCiFrom(_, _, _)
GetCiFrom(d, names, k) ==
    IF k > Len(names) THEN Null
    ELSE LET hit == {key \in DOMAIN d : Lower(key) = Lower(names[k])}
         IN  IF hit # {} THEN d[CHOOSE key \in hit : TRUE]
             ELSE GetCiFrom(d, names, k + 1)

GetCi(dct, names) ==
    IF ~IsDict(dct) \/ Len(names) = 0 THEN Null ELSE GetCiFrom(dct.d, names, 1)

HashKeys == <<"hash", "txHash", "transactionHash", "id", "txId">>

(* get_tx_hash_from_item(item): the stripped hash, or Null. *)
GetTxHashFromItem(item) ==
    LET v == GetCi(item, HashKeys)
        txobj == GetCi(item, <<"tx", "transaction">>)
        v2 == GetCi(txobj, HashKeys)
    IN  IF v.t = "txt" /\ Strip(v.s) # "" THEN Txt(Strip(v.s))
        ELSE IF IsDict(txobj) /\ v2.t = "txt" /\ Strip(v2.s) # "" THEN Txt(Strip(v2.s))
        ELSE Null

---------------------------------------------------------------------------
(* build_records *)

(* A mutant of AddrLower: the address is compared as it is written. *)
AddrLower_CaseSensitive(v) == IF v.t = "txt" THEN v.s ELSE ""

(* (frm or "").lower() *)
AddrLower(v) == IF v.t = "txt" THEN Lower(v.s) ELSE ""

(* The if/elif chain of build_records: the direction and the delta. *)
Classify(my, f_addr, t_addr, amt_d, fee_d, tips_d) ==
    IF f_addr = my /\ t_addr # my
      THEN [direction |-> "out", delta |-> DecNeg(DecAdd(DecAdd(amt_d, fee_d), tips_d))]
    ELSE IF t_addr = my /\ f_addr # my
      THEN [direction |-> "in", delta |-> amt_d]
    ELSE IF t_addr = my /\ f_addr = my
      THEN [direction |-> "self", delta |-> DecZero]
    ELSE [direction |-> "other", delta |-> DecZero]

(* details.get(h) *)
DictGet(m, h) == IF h \in DOMAIN m THEN m[h] ELSE Null

(* A mutant of BuildRecord: a block height of 0 or less is let through. *)
BuildRecord_KeepAnyBlock(addr, it, dets) ==
    LET h    == GetTxHashFromItem(it)
        det  == IF h = Null THEN Null ELSE DictGet(dets, h.s)
        amt_d == D(GetCi(det, <<"amount", "value">>))
        cl == Classify(Lower(addr), AddrLower(GetCi(det, <<"from">>)),
                       AddrLower(GetCi(det, <<"to">>)), amt_d, D(GetCi(det, <<"fee">>)),
                       D(GetCi(det, <<"tips">>)))
    IN  IF h = Null \/ ~IsDict(det) THEN <<>>
        ELSE << [hash |-> h.s, block |-> ToInt(GetCi(det, <<"blockHeight">>), 0),
                 timestamp |-> Epoch(GetCi(det, <<"timestamp">>)),
                 direction |-> cl.direction, amount |-> Str(amt_d),
                 fee |-> Str(D(GetCi(det, <<"fee">>))),
                 tips |-> Str(D(GetCi(det, <<"tips">>))),
                 type |-> Txt("send"), delta |-> Str(cl.delta), balance |-> Null] >>

(* The body of the loop of build_records for one item: <<record>>, or <<>>  *)
(* when the item is skipped.                                                *)
BuildRecord(addr, it, dets) ==
    LET my   == Lower(addr)
        h    == GetTxHashFromItem(it)
        det  == IF h = Null THEN Null ELSE DictGet(dets, h.s)
        block_i == ToInt(GetCi(det, <<"blockHeight">>), 0)
        ts_i    == Epoch(GetCi(det, <<"timestamp">>))
        typ     == GetCi(det, <<"type">>)
        amt_d   == D(GetCi(det, <<"amount", "value">>))
        fee_d   == D(GetCi(det, <<"fee">>))
        tips_d  == D(GetCi(det, <<"tips">>))
        cl == Classify(my, AddrLower(GetCi(det, <<"from">>)),
                       AddrLower(GetCi(det, <<"to">>)), amt_d, fee_d, tips_d)
    IN  IF h = Null THEN <<>>
        ELSE IF ~IsDict(det) THEN <<>>
        ELSE IF block_i <= 0 THEN <<>>
        ELSE << [hash |-> h.s, block |-> block_i, timestamp |-> ts_i,
                 direction |-> cl.direction, amount |-> Str(amt_d),
                 fee |-> Str(fee_d), tips |-> Str(tips_d),
                 type |-> IF typ = Null THEN Txt("") ELSE typ,
                 delta |-> Str(cl.delta), balance |-> Null] >>

RECURSIVE BuildRecordsFrom(_, _, _, _)
BuildRecordsFrom(addr, its, dets, k) ==
    IF k > Len(its) THEN <<>>
    ELSE BuildRecord(addr, its[k], dets) \o BuildRecordsFrom(addr, its, dets, k + 1)

BuildRecordsOf(addr, its, dets) == BuildRecordsFrom(addr, its, dets, 1)

---------------------------------------------------------------------------
(* reconstruct_balance *)

(* The sort key (x["block"], x["timestamp"]) and Python's tuple order. *)
KeyOf(r) == <<r.block, r.timestamp>>
KeyLess(a, b) == a[1] < b[1] \/ (a[1] = b[1] /\ a[2] < b[2])

(* sorted(recs, key=..., reverse=True) as the order of the indices of recs:  *)
(* descending and stable, so equal keys keep their input order.              *)
(* A mutant of InsertDesc: no key is compared. *)
InsertDesc_Front(L, n, rs) == <<n>> \o L

RECURSIVE InsertDesc(_, _, _)
InsertDesc(L, n, rs) ==
    IF L = <<>> THEN <<n>>
    ELSE IF KeyLess(KeyOf(rs[Head(L)]), KeyOf(rs[n])) THEN <<n>> \o L
    ELSE <<Head(L)>> \o InsertDesc(Tail(L), n, rs)

RECURSIVE SortedDescUpTo(_, _)
SortedDescUpTo(rs, n) ==
    IF n = 0 THEN <<>> ELSE InsertDesc(SortedDescUpTo(rs, n - 1), n, rs)

SortedDesc(rs) == SortedDescUpTo(rs, Len(rs))

(* list(reversed(recs_desc)) *)
Reversed(L) == [k \in 1..Len(L) |-> L[Len(L) + 1 - k]]

(* A mutant of StepBack: the fee of an outgoing transfer is not added back. *)
StepBack_NoFee(bal, r) ==
    IF r.direction = "out" THEN DecAdd(bal, DecAdd(D(r.amount), D(r.tips)))
    ELSE IF r.direction = "in" THEN DecSub(bal, D(r.amount))
    ELSE bal

(* One step of the backward walk over recs_desc (lines 328-332). *)
StepBack(bal, r) ==
    IF r.direction = "out"
      THEN DecAdd(bal, DecAdd(DecAdd(D(r.amount), D(r.fee)), D(r.tips)))
    ELSE IF r.direction = "in" THEN DecSub(bal, D(r.amount))
    ELSE bal

(* A mutant of StepForward: the tips of an outgoing transfer are not charged. *)
StepForward_NoTips(bal, r) ==
    IF r.direction = "out" THEN DecSub(bal, DecAdd(D(r.amount), D(r.fee)))
    ELSE IF r.direction = "in" THEN DecAdd(bal, D(r.amount))
    ELSE bal

(* One step of the forward walk over recs_asc (lines 339-342). *)
StepForward(bal, r) ==
    IF r.direction = "out"
      THEN DecSub(bal, DecAdd(DecAdd(D(r.amount), D(r.fee)), D(r.tips)))
    ELSE IF r.direction = "in" THEN DecAdd(bal, D(r.amount))
    ELSE bal

RECURSIVE WalkBack(_, _, _, _)
WalkBack(bal, rs, desc, k) ==
    IF k > Len(desc) THEN bal
    ELSE WalkBack(StepBack(bal, rs[desc[k]]), rs, desc, k + 1)

(* A mutant of StartBal: the backward walk is made from 0 when no balance  *)
(* was obtained.                                                           *)
StartBal_AlwaysWalk(curr, rs, desc) ==
    WalkBack(IF curr # Null THEN curr ELSE DecZero, rs, desc, 1)

(* start_bal (lines 326-335) *)
StartBal(curr, rs, desc) ==
    IF curr # Null THEN WalkBack(curr, rs, desc, 1) ELSE DecZero

RECURSIVE WalkForward(_, _, _, _)
WalkForward(bal, rs, asc, k) ==
    IF k > Len(asc) THEN <<>>
    ELSE LET r  == rs[asc[k]]
             b2 == StepForward(bal, r)
             rr == [r EXCEPT !.balance = Str(b2)]
         IN  <<rr>> \o WalkForward(b2, rs, asc, k + 1)

(* The forward walk on objects.  The records are objects with an identity:  *)
(* input record n of recs is object n, and heap maps each object to its     *)
(* fields.  DictCopy is rr = dict(r): the object rr names, given the object *)
(* r names and the next free identity.                                      *)
(* A mutant of DictCopy: rr = r, no copy is made. *)
DictCopy_Alias(n, fresh) == n

DictCopy(n, fresh) == fresh

(* Lines 336-346 on the heap: [heap, refs], the objects after the loop and  *)
(* the objects of out, in order.                                            *)
RECURSIVE WalkForwardHeap(_, _, _, _, _)
WalkForwardHeap(bal, heap, asc, k, nrecs) ==
    IF k > Len(asc) THEN [heap |-> heap, refs |-> <<>>]
    ELSE LET r     == heap[asc[k]]
             b2    == StepForward(bal, r)
             rr    == DictCopy(asc[k], nrecs + k)
             heap1 == [x \in DOMAIN heap \cup {rr} |-> IF x = rr THEN r ELSE heap[x]]
             heap2 == [heap1 EXCEPT ![rr].balance = Str(b2)]
             rest  == WalkForwardHeap(b2, heap2, asc, k + 1, nrecs)
         IN  [heap |-> rest.heap, refs |-> <<rr>> \o rest.refs]

(* get_current_balance on the answer of the balance endpoint: None when the  *)
(* request or its JSON fails, when the payload is no dict or holds no balance *)
GetCurrentBalance(resp) ==
    IF ~resp.ok THEN Null
    ELSE IF ~IsDict(resp.p) THEN Null
    ELSE LET c1  == GetCi(resp.p, <<"balance">>)
             res == GetCi(resp.p, <<"result">>)
             c2  == IF c1 = Null /\ IsDict(res) THEN GetCi(res, <<"balance">>) ELSE c1
             dat == GetCi(resp.p, <<"data">>)
             c3  == IF c2 = Null /\ IsDict(dat) THEN GetCi(dat, <<"balance">>) ELSE c2
         IN  IF c3 # Null THEN D(c3) ELSE Null

---------------------------------------------------------------------------
(* sys.exit(n): the status the process ended with; NoExit while it runs. *)
NoExit == <<>>
Exit(n) == <<n>>

---------------------------------------------------------------------------
(* fetch_all_txs *)

(* Python's truth value of a JSON value. *)
Truthy(v) ==
    CASE v.t = "null"  -> FALSE
      [] v.t = "txt"   -> v.s # ""
      [] v.t = "bool"  -> v.b
      [] v.t = "int"   -> v.c # 0
      [] v.t = "float" -> v.c # 0
      [] v.t = "list"  -> v.l # <<>>
      [] v.t = "dict"  -> DOMAIN v.d # {}
      [] OTHER         -> TRUE

(* x or y *)
Or(x, y) == IF Truthy(x) THEN x ELSE y

(* extract_items_and_token(payload): <<items, token>>, items a sequence. *)
ExtractItemsAndToken(payload) ==
    IF payload.t = "list" THEN <<payload.l, Null>>
    ELSE IF ~IsDict(payload) THEN <<<<>>, Null>>
    ELSE
      LET token0 == GetCi(payload, <<"continuationToken", "continuation_token">>)
          items0 == Or(GetCi(payload, <<"items", "txs">>), JList(<<>>))
          res    == GetCi(payload, <<"result">>)
          token1 == IF Truthy(items0) THEN token0
                    ELSE IF IsDict(res)
                      THEN Or(GetCi(res, <<"continuationToken">>), token0)
                    ELSE token0
          items1 == IF Truthy(items0) THEN items0
                    ELSE IF IsDict(res) THEN Or(GetCi(res, <<"items", "txs">>), JList(<<>>))
                    ELSE IF res.t = "list" THEN res
                    ELSE items0
          wrapped == IF Truthy(items1) /\ ~IsDict(items1.l[1])
                       THEN [k \in 1..Len(items1.l) |-> JDict([value |-> items1.l[k]])]
                       ELSE items1.l
      IN  <<wrapped, token1>>

PageAttempts == 5

(* What one GET of the list endpoint can come to. *)
ListOutcomes == {"exception", "http5xx", "http4xx", "badjson", "ok"}

(* A mutant of ListAttemptFails: a 4xx answer is taken for a page. *)
ListAttemptFails_Not4xx(o) == o \in {"exception", "http5xx", "badjson"}

(* Lines 173-179: the request raises, or the status is >= 500, or           *)
(* raise_for_status() raises for a 4xx, or resp.json() raises.              *)
ListAttemptFails(o) == o \in {"exception", "http5xx", "http4xx", "badjson"}

(* A mutant of PagerBreaks: an empty page with a token does not end the fetch. *)
PagerBreaks_TokenOnly(tok, got) == ~Truthy(tok)

(* Line 193: if not token or got == 0: break *)
PagerBreaks(tok, got) == ~Truthy(tok) \/ got = 0

(* A mutant of PagerCapped: the page cap is never looked at. *)
PagerCapped_Never(max_pages, pg) == FALSE

(* Line 164: if max_pages and page >= max_pages: break *)
PagerCapped(max_pages, pg) == max_pages # 0 /\ pg >= max_pages

(* Lines 168-170: the continuationToken parameter of the request (Null: none). *)
TokenParam(tok) == IF Truthy(tok) THEN tok ELSE Null

(* A mutant of Extend: the items of a page are appended twice. *)
Extend_Twice(o, its) == o \o its \o its

(* Line 188: out.extend(items or []) *)
Extend(o, its) == o \o its

(* Lines 163-170: the head of the loop; on the cap, return out to main. *)
PageTop ==
    /\ pc = "page_top"
    /\ IF PagerCapped(args.max_pages, page)
         THEN pc' = "hashes" /\ items' = out
         ELSE pc' = "page_req" /\ items' = items
    /\ attempt' = 0
    /\ UNCHANGED <<exit_code, args, written, feed, token, page, out, outcome, reqlog,
                   pagelog, resolverVars, hashes, details, recs, series, order, curr_balance,
                   start_bal, balreq>>

(* Lines 171-198: one attempt of the retry loop.  A failing attempt is      *)
(* counted, and the fifth ends the process; an attempt that succeeds with   *)
(* payload data ends the retry loop and the page is taken in.               *)
PageAttempt ==
    /\ pc = "page_req"
    /\ \E o \in ListOutcomes, data \in feed :
         /\ outcome' = o
         /\ IF ListAttemptFails(o)
              THEN /\ reqlog' = Append(reqlog, [page |-> page, token |-> TokenParam(token),
                                                ok |-> FALSE])
                   /\ IF attempt + 1 < PageAttempts
                        THEN attempt' = attempt + 1 /\ pc' = pc /\ exit_code' = exit_code
                        ELSE attempt' = attempt /\ pc' = "exit" /\ exit_code' = Exit(1)
                   /\ UNCHANGED <<token, page, out, pagelog, items>>
              ELSE LET it  == ExtractItemsAndToken(data)
                       got == Len(it[1])
                   IN  /\ page + 1 < MaxPages \/ ~Truthy(it[2])   \* the feed is finite
                       /\ reqlog' = Append(reqlog, [page |-> page,
                                                    token |-> TokenParam(token), ok |-> TRUE])
                       /\ pagelog' = Append(pagelog, [sent |-> TokenParam(token), got |-> got,
                                                      next |-> it[2], items |-> it[1]])
                       /\ out' = Extend(out, it[1])
                       /\ page' = page + 1
                       /\ token' = it[2]
                       /\ IF PagerBreaks(it[2], got)
                            THEN pc' = "hashes" /\ items' = out'
                            ELSE pc' = "page_top" /\ items' = items
                       /\ UNCHANGED <<attempt, exit_code>>
    /\ UNCHANGED <<args, written, feed, resolverVars, hashes, details, recs, series,
                   order, curr_balance, start_bal, balreq>>

---------------------------------------------------------------------------
(* main(), lines 417-424: the hashes of the items, each once, first seen first. *)

RECURSIVE HashesOfFrom(_, _)
HashesOfFrom(its, k) ==
    IF k > Len(its) THEN <<>>
    ELSE LET h == GetTxHashFromItem(its[k])
         IN  (IF h # Null THEN <<h.s>> ELSE <<>>) \o HashesOfFrom(its, k + 1)

(* A mutant of FromKeys: the duplicates stay. *)
FromKeys_KeepAll(hs) == hs

(* list(dict.fromkeys(hashes)) *)
RECURSIVE FromKeys(_)
FromKeys(hs) ==
    IF hs = <<>> THEN <<>>
    ELSE LET rest == FromKeys(SubSeq(hs, 1, Len(hs) - 1))
             h    == hs[Len(hs)]
         IN  IF \E k \in 1..Len(rest) : rest[k] = h THEN rest ELSE Append(rest, h)

(* fetch_all_txs has returned: its locals, and the history of the call, are *)
(* no more.                                                                 *)
MainHashes ==
    /\ pc = "hashes"
    /\ hashes' = FromKeys(HashesOfFrom(items, 1))
    /\ pc' = "resolve_start"
    /\ token' = Null /\ page' = 0 /\ out' = <<>> /\ attempt' = 0 /\ outcome' = "none"
    /\ reqlog' = <<>> /\ pagelog' = <<>>
    /\ UNCHANGED <<exit_code, args, written, feed, resolverVars, items, details,
                   recs, series, order, curr_balance, start_bal, balreq>>

---------------------------------------------------------------------------
(* fetch_details_for_hashes, load_or_fetch and fetch_tx_detail *)

(* A cache file: missing, unreadable (json.load raises), or holding a value. *)
Missing   == [t |-> "missing"]
Corrupt   == [t |-> "corrupt"]
File(v)   == [t |-> "file", v |-> v]

DetailAttempts == 4

(* What one GET of the detail endpoint can come to.  "ok" answers with the  *)
(* payload the endpoint holds for the hash; "http404" is its answer when it *)
(* holds none.                                                              *)
DetailFailures == {"exception", "http5xx", "http4xx", "badjson"}
DetailOutcomes(payload) ==
    DetailFailures \cup (IF payload = Missing THEN {"http404"} ELSE {"ok"})

(* A mutant of DetailRaises: a 5xx answer is read as a detail. *)
DetailRaises_Not5xx(o) == o \in {"exception", "http4xx", "badjson"}

(* Lines 215-221 and 228: session.get raises, or the status is >= 500, or   *)
(* raise_for_status() raises for a 4xx other than 404, or r.json() raises.  *)
DetailRaises(o) == o \in DetailFailures

(* Lines 221-227: the detail in a payload, unwrapped from "result". *)
DetailIn(p) ==
    IF IsDict(p)
      THEN LET res == GetCi(p, <<"result">>) IN IF IsDict(res) THEN res ELSE p
      ELSE Null

PendingFuture ==
    [st |-> "pending", attempt |-> 0, detail |-> Null, reqs |-> 0, last |-> "none",
     w |-> "none"]

Running == {k \in DOMAIN fut : fut[k].st \in {"load", "fetch", "write"}}

(* max_workers=max(1, concurrency) *)
MaxWorkers(concurrency) == Max(1, concurrency)

(* Lines 232-253: the futures are submitted. *)
ResolveStart ==
    /\ pc = "resolve_start"
    /\ force' = args.force_refresh
    /\ fut' = [k \in 1..Len(hashes) |-> PendingFuture]
    /\ results' = <<>>
    /\ cache0' = cache
    /\ pc' = "resolve"
    /\ UNCHANGED <<exit_code, args, written, pagerVars, endpoint, cache, run, first,
                   reconVars>>

(* A free worker thread takes the next submitted call. *)
WorkerTake(k) ==
    /\ pc = "resolve"
    /\ fut[k].st = "pending"
    /\ \A j \in 1..(k - 1) : fut[j].st # "pending"
    /\ Cardinality(Running) < MaxWorkers(args.concurrency)
    /\ fut' = [fut EXCEPT ![k].st = "load"]
    /\ UNCHANGED <<mainVars, pagerVars, endpoint, cache, force, results, run, first, cache0,
                   reconVars>>

(* A mutant of CacheReadable: force_refresh is not looked at. *)
CacheReadable_IgnoreForce(f, entry) == entry.t = "file"

(* Lines 239-244: the cache entry is returned when force_refresh is unset,  *)
(* the file exists and json.load reads it.                                  *)
CacheReadable(f, entry) == ~f /\ entry # Missing /\ entry.t = "file"

(* Lines 238-245: load_or_fetch up to the call of fetch_tx_detail. *)
WorkerLoad(k) ==
    /\ pc = "resolve"
    /\ fut[k].st = "load"
    /\ IF CacheReadable(force, cache[hashes[k]])
         THEN fut' = [fut EXCEPT ![k].st = "done", ![k].detail = cache[hashes[k]].v]
         ELSE fut' = [fut EXCEPT ![k].st = "fetch", ![k].attempt = 0]
    /\ UNCHANGED <<mainVars, pagerVars, endpoint, cache, force, results, run, first, cache0,
                   reconVars>>

(* Lines 213-230: one attempt of fetch_tx_detail.  A 404 returns None, an   *)
(* answer returns its detail, anything else raises and is retried, and the  *)
(* loop running out returns None.                                           *)
WorkerFetch(k) ==
    /\ pc = "resolve"
    /\ fut[k].st = "fetch"
    /\ \E o \in DetailOutcomes(endpoint[hashes[k]]) :
         LET sent == [fut EXCEPT ![k].reqs = @ + 1, ![k].last = o]
         IN  IF o = "http404"
               THEN fut' = [sent EXCEPT ![k].st = "write", ![k].detail = Null]
             ELSE IF ~DetailRaises(o)
               THEN fut' = [sent EXCEPT ![k].st = "write",
                                        ![k].detail = DetailIn(endpoint[hashes[k]])]
             ELSE IF fut[k].attempt + 1 < DetailAttempts
               THEN fut' = [sent EXCEPT ![k].attempt = @ + 1]
             ELSE fut' = [sent EXCEPT ![k].st = "write", ![k].detail = Null]
    /\ UNCHANGED <<mainVars, pagerVars, endpoint, cache, force, results, run, first, cache0,
                   reconVars>>

(* A mutant of CacheAfterWrite: no file is written for a detail of None. *)
CacheAfterWrite_SkipNone(entry, w, detail) ==
    IF detail = Null THEN entry
    ELSE IF w = "ok" THEN File(detail)
    ELSE IF w = "corrupt" THEN Corrupt ELSE entry

(* Lines 246-250: the file after json.dump(detail, f), or after the write   *)
(* failed: as it was (open raised) or unreadable (dump raised).             *)
CacheAfterWrite(entry, w, detail) ==
    IF w = "ok" THEN File(detail)
    ELSE IF w = "corrupt" THEN Corrupt ELSE entry

(* Lines 246-251: the detail is written, whatever it is; a failing write is *)
(* passed over.                                                             *)
WorkerWrite(k) ==
    /\ pc = "resolve"
    /\ fut[k].st = "write"
    /\ \E w \in {"ok", "unchanged", "corrupt"} :
         /\ fut' = [fut EXCEPT ![k].st = "done", ![k].w = w]
         /\ cache' = [cache EXCEPT ![hashes[k]] = CacheAfterWrite(@, w, fut[k].detail)]
    /\ UNCHANGED <<mainVars, pagerVars, endpoint, force, results, run, first, cache0,
                   reconVars>>

(* A mutant of ResultsPut: the results are kept by the order of arrival and *)
(* matched with the hashes by position.                                     *)
ResultsPut_ByArrival(res, h, detail) ==
    LET g == hashes[Cardinality(DOMAIN res) + 1]
    IN  [x \in DOMAIN res \cup {g} |-> IF x = g THEN detail ELSE res[x]]

(* Line 257: results[h] = detail *)
ResultsPut(res, h, detail) ==
    [x \in DOMAIN res \cup {h} |-> IF x = h THEN detail ELSE res[x]]

(* Lines 255-258: as_completed hands over a finished future. *)
Collect(k) ==
    /\ pc = "resolve"
    /\ fut[k].st = "done"
    /\ fut' = [fut EXCEPT ![k].st = "collected"]
    /\ results' = ResultsPut(results, hashes[k], fut[k].detail)
    /\ UNCHANGED <<mainVars, pagerVars, endpoint, cache, force, run, first, cache0, reconVars>>

(* Line 261: return results, to details of main. *)
ResolveReturn ==
    /\ pc = "resolve"
    /\ \A k \in DOMAIN fut : fut[k].st = "collected"
    /\ details' = results
    /\ pc' = "build"
    /\ UNCHANGED <<exit_code, args, written, pagerVars, resolverVars, items, hashes,
                   recs, series, order, curr_balance, start_bal, balreq>>

Resolver ==
    \/ ResolveStart
    \/ \E k \in DOMAIN fut : WorkerTake(k) \/ WorkerLoad(k) \/ WorkerFetch(k)
                             \/ WorkerWrite(k) \/ Collect(k)
    \/ ResolveReturn

---------------------------------------------------------------------------
(* main(), from build_records on (lines 426-455). *)

OutputFiles == {"timeline.jsonl", "timeline.csv", "tail.csv", "balance_all.png",
                "balance_last.png"}

(* The answers of the balance endpoint: the request failing, a top-level    *)
(* balance, a balance nested under result, a payload without a balance.     *)
BalanceAnswers ==
    { [ok |-> FALSE, p |-> Null],
      [ok |-> TRUE, p |-> JDict([balance |-> NumStr(10, 0, FALSE)])],
      [ok |-> TRUE, p |-> JDict([result |-> JDict([Balance |-> NumStr(1301, -2, FALSE)])])],
      [ok |-> TRUE, p |-> JDict([data |-> Null])] }

(* recs = build_records(...); if not recs: sys.exit(0).  The resolver has   *)
(* returned: its futures and its results dict are no more.                  *)
MainBuild ==
    /\ pc = "build"
    /\ recs' = BuildRecordsOf(args.address, items, details)
    /\ IF recs' = <<>>
         THEN pc' = "exit" /\ exit_code' = Exit(0)
         ELSE pc' = "reconstruct" /\ exit_code' = exit_code
    /\ fut' = <<>> /\ results' = <<>>
    /\ UNCHANGED <<args, written, pagerVars, endpoint, cache, force, run, first, cache0,
                   items, hashes, details, series, order, curr_balance, start_bal, balreq>>

(* series, curr_balance = reconstruct_balance(...) *)
MainReconstruct ==
    /\ pc = "reconstruct"
    /\ \E resp \in BalanceAnswers :
         LET curr == IF args.calibrate THEN GetCurrentBalance(resp) ELSE Null
             desc == SortedDesc(recs)
             asc  == Reversed(desc)
             sb   == StartBal(curr, recs, desc)
         IN  /\ curr_balance' = curr
             /\ start_bal' = sb
             /\ order' = asc
             /\ LET H == WalkForwardHeap(sb, recs, asc, 1, Len(recs))
                IN  /\ series' = [k \in 1..Len(H.refs) |-> H.heap[H.refs[k]]]
                    /\ recs' = [n \in 1..Len(recs) |-> H.heap[n]]
             /\ balreq' = IF args.calibrate THEN Append(balreq, resp) ELSE balreq
    /\ pc' = "check"
    /\ UNCHANGED <<exit_code, args, written, pagerVars, resolverVars, items, hashes,
                   details>>

(* A mutant of HasZeroBlock: only the first row is looked at. *)
HasZeroBlock_FirstOnly(sr) == sr # <<>> /\ sr[1].block = 0

(* any(r["block"] == 0 for r in series) *)
HasZeroBlock(sr) == \E k \in 1..Len(sr) : sr[k].block = 0

(* if any(r["block"] == 0 for r in series): sys.exit(2) *)
MainCheck ==
    /\ pc = "check"
    /\ IF HasZeroBlock(series)
         THEN pc' = "exit" /\ exit_code' = Exit(2)
         ELSE pc' = "save" /\ exit_code' = exit_code
    /\ UNCHANGED <<args, written, pagerVars, resolverVars, reconVars>>

(* save_jsonl, save_csv, save_tail_csv, plot_series *)
MainSave ==
    /\ pc = "save"
    /\ written' = OutputFiles
    /\ pc' = "done"
    /\ UNCHANGED <<exit_code, args, pagerVars, resolverVars, reconVars>>

---------------------------------------------------------------------------
(* The inputs of build_records and reconstruct_balance. *)

MyAddress == "0xAbC"

ItemPool ==
    { JDict([hash |-> Txt("h1")]),
      JDict([tx |-> JDict([txHash |-> Txt(" h2 ")])]),
      JDict([value |-> JInt(7)]) }

(* <<blockHeight, timestamp>>: a tie, the same block later, a later block. *)
WhenPool ==
    { <<JInt(1), JInt(0)>>, <<NumStr(1, 0, TRUE), NumStr(5, 0, FALSE)>>,
      <<JInt(2), Null>> }

(* <<from, to>>: out, in, self, other for MyAddress. *)
PartyPool ==
    { <<Txt("0xabc"), Txt("0xDeF")>>, <<Txt("0xDeF"), Txt("0XABC")>>,
      <<Txt("0xAbC"), Txt("0xabc")>>, <<Txt("0xDeF"), Null>> }

(* <<amount, fee, tips>> *)
AmountPool ==
    { <<NumStr(5, 0, FALSE), NumStr(1, -2, FALSE), JFloat(25, -2)>>,
      <<JInt(-2), BadStr, Null>> }

(* Block heights that do not come as a plain positive integer: 0.5, true,  *)
(* "1.5", -3 and 2.75.                                                      *)
BlockPool ==
    { JFloat(5, -1), JBool(TRUE), NumStr(15, -1, FALSE), JInt(-3), JFloat(275, -2) }

DetailOf(w, p, a) ==
    JDict([blockHeight |-> w[1], timestamp |-> w[2], type |-> Txt("send"),
           from |-> p[1], to |-> p[2], amount |-> a[1], fee |-> a[2], tips |-> a[3]])

DetailPool ==
    { DetailOf(w, p, <<NumStr(5, 0, FALSE), NumStr(1, -2, FALSE), JFloat(25, -2)>>) :
        w \in WhenPool, p \in PartyPool }
    \cup { DetailOf(<<JInt(1), JInt(0)>>, p, a) : p \in PartyPool, a \in AmountPool }
    \cup { Null,
           JDict([BlockHeight |-> JInt(0), from |-> Txt("0xabc"),
                  value |-> NumStr(150, -2, FALSE)]) }
    \cup { JDict([blockHeight |-> b, to |-> Txt("0xAbC"), Amount |-> JInt(3)]) :
             b \in BlockPool }

(* The details of the second hash: fewer, to keep the product small. *)
DetailPool2 ==
    { DetailOf(w, p, <<NumStr(2, 0, FALSE), JInt(0), JInt(0)>>) :
        w \in {<<JInt(1), JInt(0)>>, <<JInt(2), Null>>},
        p \in {<<Txt("0xAbC"), Txt("0xDeF")>>, <<Txt("0xDeF"), Txt("0xAbC")>>} }
    \cup { Null }

SeqsUpTo(S, n) == UNION { [1..k -> S] : k \in 0..n }

IdlePager ==
    /\ feed = {} /\ token = Null /\ page = 0 /\ out = <<>> /\ attempt = 0
    /\ outcome = "none"
    /\ reqlog = <<>> /\ pagelog = <<>>

IdleResolver ==
    /\ endpoint = <<>> /\ cache = <<>> /\ force = FALSE /\ fut = <<>>
    /\ results = <<>> /\ run = 1 /\ first = <<>> /\ cache0 = <<>>

IdleRecon ==
    /\ recs = <<>> /\ series = <<>> /\ order = <<>> /\ curr_balance = Null
    /\ start_bal = DecZero /\ balreq = <<>>

(* main() at the call of build_records, for every item list and mapping. *)
InitRecon ==
    /\ pc = "build" /\ exit_code = NoExit /\ written = {}
    /\ args \in [address : {MyAddress}, max_pages : {0}, concurrency : {1},
                 force_refresh : {FALSE}, calibrate : BOOLEAN]
    /\ IdlePager /\ IdleResolver /\ IdleRecon
    /\ items \in SeqsUpTo(ItemPool, MaxItems)
    /\ hashes = <<>>
    /\ details \in { [h1 |-> d1, h2 |-> d2] : d1 \in DetailPool, d2 \in DetailPool2 }
                  \cup { [h1 |-> DetailOf(<<JInt(2), Null>>, p, <<JInt(3), Null, Null>>)] :
                            p \in PartyPool }

NextRecon == MainBuild \/ MainReconstruct

SpecRecon == InitRecon /\ [][NextRecon]_vars

---------------------------------------------------------------------------
(* Properties of build_records and reconstruct_balance (SpecRecon). *)

Reconstructed == pc \in {"check", "save", "done"}
Classified    == pc \in {"reconstruct", "check", "save", "done"}

(* The change a record makes to the balance, by the sign convention of the  *)
(* specification: out -(amount+fee+tips), in +amount, self and other 0.     *)
AppliedDelta(r) ==
    IF r.direction = "out"
      THEN DecNeg(DecAdd(DecAdd(D(r.amount), D(r.fee)), D(r.tips)))
    ELSE IF r.direction = "in" THEN D(r.amount)
    ELSE DecZero

RECURSIVE NetChange(_, _)
NetChange(rs, k) ==
    IF k > Len(rs) THEN DecZero ELSE DecAdd(AppliedDelta(rs[k]), NetChange(rs, k + 1))

BalanceOf(r) == D(r.balance)

(* C1: when a current balance C was obtained and there are records, the     *)
(* start balance is C minus the net applied change of all records, and the  *)
(* balance stamped on the last record of the series is C.                   *)
C1_Calibration ==
    (Reconstructed /\ curr_balance # Null /\ recs # <<>>) =>
        /\ DecEq(start_bal, DecSub(curr_balance, NetChange(recs, 1)))
        /\ DecEq(BalanceOf(series[Len(series)]), curr_balance)

C1_Witness ==
    /\ Reconstructed /\ curr_balance # Null /\ Len(recs) >= 2
    /\ \E j, k \in 1..Len(recs) :
         /\ recs[j].direction = "out" /\ recs[k].direction = "in"
         /\ D(recs[j].fee).c # 0
    /\ ~DecEq(start_bal, curr_balance)

(* C2: consecutive balances of the series differ by the applied delta of    *)
(* the later record, which is that record's stored delta field, and the     *)
(* first balance is the start balance plus the first applied delta.         *)
C2_Consistency ==
    Reconstructed =>
        /\ \A k \in 1..Len(series) :
             DecEq(AppliedDelta(series[k]), D(series[k].delta))
        /\ \A k \in 2..Len(series) :
             DecEq(DecSub(BalanceOf(series[k]), BalanceOf(series[k - 1])),
                   AppliedDelta(series[k]))
        /\ Len(series) >= 1 =>
             DecEq(BalanceOf(series[1]), DecAdd(start_bal, AppliedDelta(series[1])))

C2_Witness ==
    /\ Reconstructed /\ Len(series) >= 3
    /\ \E k \in 2..Len(series) :
         /\ series[k].direction = "out" /\ D(series[k].tips).c # 0
         /\ ~DecEq(BalanceOf(series[k]), BalanceOf(series[k - 1]))
    /\ start_bal.c # 0

(* Where the input record of index n stands in the series. *)
PosOf(n) == CHOOSE k \in 1..Len(order) : order[k] = n

(* C3: two input records with the same (block, timestamp) stand in the      *)
(* series in the relative order they have in the input list.  (Stated for   *)
(* records of different hashes, which the series tells apart.)              *)
C3_TiesKeepInputOrder ==
    Reconstructed =>
        \A m, n \in 1..Len(recs) :
            (m < n /\ KeyOf(recs[m]) = KeyOf(recs[n]) /\ recs[m].hash # recs[n].hash)
                => /\ PosOf(m) < PosOf(n)
                   /\ series[PosOf(m)].hash = recs[m].hash
                   /\ series[PosOf(n)].hash = recs[n].hash

Count(sq, P(_)) == Cardinality({k \in 1..Len(sq) : P(sq[k])})

(* C4: the series has the hashes of the input records, each as often as the *)
(* input has it, and its (block, timestamp) never decreases.                *)
C4_PermutationAscending ==
    Reconstructed =>
        /\ Len(series) = Len(recs)
        /\ \A h \in {"h1", "h2", "h3"} :
             LET Has(r) == r.hash = h IN Count(series, Has) = Count(recs, Has)
        /\ \A k \in 2..Len(series) :
             ~KeyLess(KeyOf(series[k]), KeyOf(series[k - 1]))

C4_Witness ==
    /\ Reconstructed /\ Len(series) >= 3
    /\ \E k \in 2..Len(recs) : KeyLess(KeyOf(recs[k]), KeyOf(recs[k - 1]))
    /\ \E j, k \in 1..Len(recs) : recs[j].hash # recs[k].hash

(* The detail a record was built from, and its parties compared with the    *)
(* subject address without regard to case.                                  *)
SameAddress(v, addr) == v.t = "txt" /\ Lower(v.s) = Lower(addr)
DetailFor(r) == details[r.hash]

(* C5: every record has the one direction the parties of its detail give it *)
(* (out: from is the subject and to is not; in: to is and from is not;      *)
(* self: both; other: neither), the delta of that direction, and no balance.*)
C5_Classification ==
    Classified =>
        \A k \in 1..Len(recs) :
            LET r    == recs[k]
                det  == DetailFor(r)
                fMy  == SameAddress(GetCi(det, <<"from">>), args.address)
                tMy  == SameAddress(GetCi(det, <<"to">>), args.address)
                amt  == D(GetCi(det, <<"amount", "value">>))
                cost == DecAdd(DecAdd(amt, D(GetCi(det, <<"fee">>))),
                               D(GetCi(det, <<"tips">>)))
            IN  /\ r.direction \in {"in", "out", "self", "other"}
                /\ (r.direction = "out") <=> (fMy /\ ~tMy)
                /\ (r.direction = "in") <=> (tMy /\ ~fMy)
                /\ (r.direction = "self") <=> (tMy /\ fMy)
                /\ (r.direction = "other") <=> (~tMy /\ ~fMy)
                /\ r.direction = "out" => D(r.delta) = DecNeg(cost)
                /\ r.direction = "in" => D(r.delta) = amt
                /\ r.direction \in {"self", "other"} => D(r.delta) = DecZero
                /\ r.balance = Null

C5_Witness ==
    /\ Classified /\ Len(recs) >= 2
    /\ \E j, k \in 1..Len(recs) :
         /\ recs[j].direction = "in" /\ GetCi(DetailFor(recs[j]), <<"to">>) = Txt("0XABC")
         /\ recs[k].direction = "out" /\ D(recs[k].delta).c < 0

(* C6: the delta of a record has the sign of its direction: out <= 0,       *)
(* in >= 0, self and other = 0.                                             *)
C6_DeltaSign ==
    Classified =>
        \A k \in 1..Len(recs) :
            /\ recs[k].direction = "out" => DecSign(D(recs[k].delta)) <= 0
            /\ recs[k].direction = "in" => DecSign(D(recs[k].delta)) >= 0
            /\ recs[k].direction \in {"self", "other"} => DecSign(D(recs[k].delta)) = 0

---------------------------------------------------------------------------
(* fetch_all_txs alone (SpecPager): every payload shape the fetcher reads. *)

Item1 == JDict([hash |-> Txt("h1")])
Item2 == JDict([tx |-> JDict([txHash |-> Txt(" h2 ")])])

PayloadPool ==
    { JList(<<Item1, Item2>>),
      JList(<<>>),
      JInt(7),
      JDict([items |-> JList(<<Item1>>), continuationToken |-> Txt("t1")]),
      JDict([Items |-> JList(<<Item2>>), ContinuationToken |-> Txt("t2")]),
      JDict([txs |-> JList(<<Txt("h1")>>), continuation_token |-> Txt("")]),
      JDict([items |-> JList(<<>>), continuationToken |-> Txt("t1")]),
      JDict([result |-> JDict([items |-> JList(<<Item2, Item1>>),
                               continuationToken |-> Txt("t2")])]),
      JDict([result |-> JList(<<Item1>>), continuationToken |-> Txt("t1")]),
      JDict([items |-> JList(<<Item1>>), result |-> JDict([continuationToken |-> Txt("t2")])]) }

InitPager ==
    /\ pc = "page_top" /\ exit_code = NoExit /\ written = {}
    /\ args \in [address : {MyAddress}, max_pages : {0, 1, 2}, concurrency : {1},
                 force_refresh : {FALSE}, calibrate : {FALSE}]
    /\ feed = PayloadPool
    /\ token = Null /\ page = 0 /\ out = <<>> /\ attempt = 0 /\ outcome = "none"
    /\ reqlog = <<>> /\ pagelog = <<>>
    /\ IdleResolver /\ IdleRecon
    /\ items = <<>> /\ hashes = <<>> /\ details = <<>>

NextPager == PageTop \/ PageAttempt

SpecPager == InitPager /\ [][NextPager]_vars

---------------------------------------------------------------------------
(* fetch_details_for_hashes alone (SpecResolver): a first run over a list   *)
(* of different hashes, with any cache and any force_refresh, and then a    *)
(* second run over the same list with force_refresh=False.                  *)

HashUniverse == {"h1", "h2"}

DetailA == DetailOf(<<JInt(1), JInt(0)>>, <<Txt("0xabc"), Txt("0xDeF")>>,
                    <<NumStr(5, 0, FALSE), NumStr(1, -2, FALSE), Null>>)
DetailB == DetailOf(<<JInt(2), JInt(0)>>, <<Txt("0xDeF"), Txt("0xAbC")>>,
                    <<NumStr(2, 0, FALSE), JInt(0), JInt(0)>>)

(* What the detail endpoint holds for a hash: nothing (404), a detail, a    *)
(* detail under "result".                                                   *)
EndpointPool == {Missing, DetailA, JDict([result |-> DetailB])}

CachePool == {Missing, Corrupt, File(Null), File(DetailB)}

InitResolver ==
    /\ pc = "resolve" /\ exit_code = NoExit /\ written = {}
    /\ args \in [address : {MyAddress}, max_pages : {0}, concurrency : {0, 2},
                 force_refresh : BOOLEAN, calibrate : {FALSE}]
    /\ IdlePager /\ IdleRecon
    /\ items = <<>> /\ details = <<>>
    /\ hashes = <<"h2", "h1">>
    /\ endpoint \in {[h1 |-> e1, h2 |-> e2] : e1 \in EndpointPool, e2 \in {Missing, DetailA}}
    /\ cache \in {[h1 |-> c1, h2 |-> c2] : c1 \in CachePool, c2 \in {Missing, File(DetailB)}}
    /\ force = args.force_refresh
    /\ fut = [k \in 1..Len(hashes) |-> PendingFuture]
    /\ results = <<>> /\ run = 1 /\ first = <<>> /\ cache0 = cache

(* The resolver is run again over the same hashes, force_refresh=False,     *)
(* against the cache the first run left.                                    *)
SecondRun ==
    /\ pc = "build" /\ run = 1
    /\ first' = [results |-> details,
                  written |-> \A k \in DOMAIN fut : fut[k].w \in {"none", "ok"}]
    /\ run' = 2
    /\ force' = FALSE
    /\ fut' = [k \in 1..Len(hashes) |-> PendingFuture]
    /\ results' = <<>>
    /\ cache0' = cache
    /\ pc' = "resolve"
    /\ UNCHANGED <<exit_code, args, written, pagerVars, endpoint, cache, reconVars>>

NextResolver ==
    \/ \E k \in DOMAIN fut : WorkerTake(k) \/ WorkerLoad(k) \/ WorkerFetch(k)
                             \/ WorkerWrite(k) \/ Collect(k)
    \/ ResolveReturn
    \/ SecondRun

SpecResolver == InitResolver /\ [][NextResolver]_vars

---------------------------------------------------------------------------
(* main() as a whole (Spec): a feed that lists a hash on two pages, a       *)
(* detail endpoint that knows the first hash and may know the second, and   *)
(* a cache that is empty or holds the first hash.                           *)

MainFeed ==
    { JDict([items |-> JList(<<Item1, Item2>>), continuationToken |-> Txt("t1")]),
      JDict([result |-> JDict([items |-> JList(<<Item1>>)])]),
      JList(<<>>) }

Init ==
    /\ pc = "page_top" /\ exit_code = NoExit /\ written = {}
    /\ args \in [address : {MyAddress}, max_pages : {0}, concurrency : {0, 2},
                 force_refresh : {FALSE}, calibrate : {TRUE}]
    /\ feed = MainFeed
    /\ token = Null /\ page = 0 /\ out = <<>> /\ attempt = 0 /\ outcome = "none"
    /\ reqlog = <<>> /\ pagelog = <<>>
    /\ endpoint \in {[h1 |-> DetailA, h2 |-> e2] : e2 \in {Missing, JDict([result |-> DetailB])}}
    /\ cache \in {[h1 |-> c1, h2 |-> Missing] : c1 \in {Missing, File(DetailA)}}
    /\ force = FALSE /\ fut = <<>> /\ results = <<>> /\ run = 1 /\ first = <<>>
    /\ cache0 = <<>>
    /\ IdleRecon
    /\ items = <<>> /\ hashes = <<>> /\ details = <<>>

Next ==
    \/ PageTop \/ PageAttempt
    \/ MainHashes
    \/ Resolver
    \/ MainBuild \/ MainReconstruct \/ MainCheck \/ MainSave

Spec == Init /\ [][Next]_vars

---------------------------------------------------------------------------
(* Properties of fetch_all_txs. *)

InPager == pc \in {"page_top", "page_req"}

(* Page k of the fetch ends it: no token came with it, or it held no item,  *)
(* or it was the last page the cap allows.                                  *)
EndsFetch(k) ==
    \/ pagelog[k].next \in {Null, Txt("")}
    \/ pagelog[k].got = 0
    \/ (args.max_pages > 0 /\ k >= args.max_pages)

(* C7: no request is sent after a page that came without a token, or with   *)
(* no item, or that reached the page cap; after any other page the fetch    *)
(* goes on, and every request for the next page carries that page's token.  *)
C7_PaginationTermination ==
    \A k \in 1..Len(pagelog) :
        IF EndsFetch(k)
          THEN \A j \in 1..Len(reqlog) : reqlog[j].page < k
          ELSE /\ \A j \in 1..Len(reqlog) :
                    reqlog[j].page = k => reqlog[j].token = pagelog[k].next
               /\ \/ \E j \in 1..Len(reqlog) : reqlog[j].page = k
                  \/ InPager /\ page = k /\ token = pagelog[k].next

C7_Witness ==
    /\ pc = "hashes" /\ Len(pagelog) = 2
    /\ ~EndsFetch(1) /\ pagelog[1].next = Txt("t2")
    /\ pagelog[2].got = 0 /\ pagelog[2].next = Txt("t1")
    /\ \E j \in 1..Len(reqlog) : reqlog[j].page = 1 /\ reqlog[j].token = Txt("t2")
    /\ args.max_pages = 0

---------------------------------------------------------------------------
(* Properties of fetch_details_for_hashes (SpecResolver). *)

SecondRunReturned == run = 2 /\ pc = "build"

NoRequestSent == \A k \in DOMAIN fut : fut[k].reqs = 0

C10_NullMeansNotFound ==
    \A k \in DOMAIN fut :
        /\ (fut[k].w = "ok" /\ fut[k].detail = Null) => fut[k].last = "http404"
        /\ (fut[k].reqs = DetailAttempts /\ fut[k].last \in DetailFailures
            /\ fut[k].st \in {"done", "collected"})
               => cache[hashes[k]] # File(Null)

---------------------------------------------------------------------------
(* Properties of main() as a whole (Spec). *)

RequestsFor(p) == {j \in 1..Len(reqlog) : reqlog[j].page = p}
FailedFor(p)   == {j \in RequestsFor(p) : ~reqlog[j].ok}

C8_Bounded ==
    /\ \A p \in 0..Len(pagelog) : Cardinality(RequestsFor(p)) <= 5
    /\ pc = "page_req" => attempt = Cardinality(FailedFor(page)) /\ attempt < 5
    /\ (\E p \in 0..Len(pagelog) : Cardinality(FailedFor(p)) = 5) <=> exit_code = Exit(1)
    /\ exit_code = Exit(1) =>
         /\ pc = "exit"
         /\ fut = <<>> /\ results = <<>> /\ details = <<>> /\ hashes = <<>>
         /\ recs = <<>> /\ series = <<>> /\ written = {}

C8_Consumes ==
    \A kind \in {"exception", "http5xx", "http4xx", "badjson"} :
        (pc = "page_req" /\ outcome' = kind /\ reqlog' # reqlog) =>
            /\ page' = page /\ token' = token /\ out' = out /\ pagelog' = pagelog
            /\ ~reqlog'[Len(reqlog')].ok
            /\ \/ attempt < 4 /\ attempt' = attempt + 1 /\ pc' = "page_req"
               \/ attempt = 4 /\ pc' = "exit" /\ exit_code' = Exit(1)

(* C8: a page is requested at most 5 times; an attempt that ends in an      *)
(* exception, a 5xx, a 4xx or malformed JSON is counted and changes nothing *)
(* else; the fifth failure ends the process with status 1, and then no      *)
(* detail is resolved, no record classified and no file written.            *)
C8_PageRetryFatal == []C8_Bounded /\ [][C8_Consumes]_vars

C8_Witness ==
    /\ exit_code = Exit(1) /\ pc = "exit" /\ outcome = "http4xx"
    /\ Len(pagelog) = 1 /\ pagelog[1].got = 2
    /\ Cardinality(FailedFor(1)) = 5
    /\ cache["h1"] = File(DetailA)

---------------------------------------------------------------------------
(* Detail fetch errors in a run of main() (Spec). *)

(* The fetch of future k ran out of its attempts. *)
Exhausted(k) ==
    fut[k].reqs = 4 /\ fut[k].last \in {"exception", "http5xx", "http4xx", "badjson"}

ExhaustedHashes == {hashes[k] : k \in {j \in DOMAIN fut : Exhausted(j)}}

(* The hashes lost to errors, as the mapping shows them once the futures    *)
(* are gone: not answered from the cache, held by the endpoint, yet None.   *)
LostHashes ==
    {h \in DOMAIN details :
        /\ details[h] = Null
        /\ ~(~force /\ cache0[h].t = "file")
        /\ endpoint[h] # Missing}

(* The mapping the resolver would have returned had no fetch run out. *)
FullDetails ==
    [h \in DOMAIN details |->
        IF h \in LostHashes THEN DetailIn(endpoint[h]) ELSE details[h]]

(* The series main() makes of a details mapping, for the current balance    *)
(* this run obtained.                                                       *)
SeriesOf(dets) ==
    LET rs   == BuildRecordsOf(args.address, items, dets)
        desc == SortedDesc(rs)
    IN  WalkForward(StartBal(curr_balance, rs, desc), rs, Reversed(desc), 1)

NotLost(r) == r.hash \notin LostHashes
NoBalance(sq) == [k \in 1..Len(sq) |-> [sq[k] EXCEPT !.balance = Null]]

(* At most 4 requests per hash; a 404 ends the fetch with None; an exception *)
(* or a 5xx before the fourth request is followed by another request; a     *)
(* fetch that ran out gives None, and the run goes on.                      *)
C11_FetchErrors ==
    /\ \A k \in DOMAIN fut :
         /\ fut[k].reqs <= 4
         /\ fut[k].last = "http404" => fut[k].st # "fetch" /\ fut[k].detail = Null
         /\ (fut[k].last \in {"exception", "http5xx"} /\ fut[k].reqs < 4)
               => fut[k].st = "fetch"
         /\ Exhausted(k) => fut[k].st # "fetch" /\ fut[k].detail = Null
    /\ ExhaustedHashes # {} => exit_code = NoExit
    /\ pc = "build" =>
         LostHashes = {h \in ExhaustedHashes : endpoint[h] # Missing}
    /\ LostHashes # {} =>
         /\ exit_code \in {NoExit, Exit(0)}
         /\ exit_code = Exit(0) => recs = <<>>

(* C11, as claimed: ... and the series is the series of the run in which no *)
(* fetch ran out, less the records of the hashes whose fetch ran out.       *)
C11_OnlyRowsMissing ==
    /\ C11_FetchErrors
    /\ Reconstructed => series = SelectSeq(SeriesOf(FullDetails), NotLost)

(* C11, amended: ... and the series has the records of that series less the *)
(* records of those hashes, in the same order, with balances that leave the *)
(* missing deltas out: the balance field apart, nothing else differs.       *)
C11_RowsMissingBalancesShifted ==
    /\ C11_FetchErrors
    /\ Reconstructed =>
         /\ NoBalance(series) = NoBalance(SelectSeq(SeriesOf(FullDetails), NotLost))
         /\ series = SeriesOf(details)

C11_Witness ==
    /\ pc = "done" /\ written = OutputFiles
    /\ LostHashes = {"h1"} /\ details["h2"] # Null
    /\ Len(series) >= 1 /\ Len(SeriesOf(FullDetails)) > Len(series)
    /\ curr_balance # Null

---------------------------------------------------------------------------
(* The skip conditions of build_records (SpecRecon). *)

(* The item has a hash, the mapping holds a detail object for it, and the   *)
(* blockHeight of the detail reads as an integer above 0.                   *)
Usable(it) ==
    LET h == GetTxHashFromItem(it)
    IN  /\ h # Null
        /\ h.s \in DOMAIN details
        /\ IsDict(details[h.s])
        /\ ToInt(GetCi(details[h.s], <<"blockHeight">>), 0) > 0

(* The usable items, in the order of the items. *)
UsableItems == SelectSeq(items, Usable)

(* C12: build_records emits one record for each usable item, in the order   *)
(* of the items, and none for any other; every record, and every record of  *)
(* the series, has block > 0.                                               *)
C12_SkipConditions ==
    /\ Classified =>
         /\ Len(recs) = Len(UsableItems)
         /\ \A j \in 1..Len(recs) :
              /\ recs[j].hash = GetTxHashFromItem(UsableItems[j]).s
              /\ recs[j].block =
                   ToInt(GetCi(details[recs[j].hash], <<"blockHeight">>), 0)
              /\ recs[j].block > 0
    /\ Reconstructed =>
         /\ Len(series) = Len(recs)
         /\ \A k \in 1..Len(series) : series[k].block > 0

C12_Witness ==
    /\ Reconstructed /\ Len(items) = 3 /\ Len(series) = 1
    /\ GetTxHashFromItem(items[1]) = Null
    /\ GetTxHashFromItem(items[2]) = Txt("h1")
    /\ GetCi(details["h1"], <<"blockHeight">>) = JFloat(5, -1)
    /\ series[1].hash = "h2" /\ series[1].block = 1

---------------------------------------------------------------------------
(* main() from line 432 on, handed any list of records (SpecInject): the    *)
(* records build_records makes have block > 0, so the check of line 433 is  *)
(* reached with a block of 0 only when a record is put in from outside.     *)

InjRec(h, b) ==
    [hash |-> h, block |-> b, timestamp |-> 0, direction |-> "in",
     amount |-> Str(Dec(2, 0)), fee |-> Str(DecZero), tips |-> Str(DecZero),
     type |-> Txt("send"), delta |-> Str(Dec(2, 0)), balance |-> Null]

InjPool == { InjRec("h1", 1), InjRec("h2", 0), InjRec("h3", -1), InjRec("h2", 2) }

InitInject ==
    /\ pc = "reconstruct" /\ exit_code = NoExit /\ written = {}
    /\ args \in [address : {MyAddress}, max_pages : {0}, concurrency : {1},
                 force_refresh : {FALSE}, calibrate : BOOLEAN]
    /\ IdlePager /\ IdleResolver
    /\ items = <<>> /\ hashes = <<>> /\ details = <<>>
    /\ recs \in SeqsUpTo(InjPool, MaxItems) \ {<<>>}
    /\ series = <<>> /\ order = <<>> /\ curr_balance = Null
    /\ start_bal = DecZero /\ balreq = <<>>

NextInject == MainReconstruct \/ MainCheck \/ MainSave

SpecInject == InitInject /\ [][NextInject]_vars

(* C13: once the series holds a record with block = 0, at whatever place,   *)
(* main ends with a status other than 0 and no output file is ever written. *)
C13_ZeroBlockAborts ==
    /\ (pc \in {"save", "done"} \/ written # {}) =>
         \A k \in 1..Len(series) : series[k].block # 0
    /\ (\E k \in 1..Len(series) : series[k].block = 0) =>
         \/ pc = "check" /\ written = {}
         \/ pc = "exit" /\ exit_code = Exit(2) /\ written = {}

C13_Witness ==
    /\ pc = "exit" /\ exit_code = Exit(2) /\ written = {}
    /\ Len(series) = 3 /\ series[1].block < 0 /\ series[2].block = 0
    /\ series[3].block > 0

---------------------------------------------------------------------------
(* The workers of the resolver in a run of main() (Spec). *)

(* C14: never more than max(1, concurrency) resolutions are in flight, and  *)
(* no two futures of a run are for the same hash, so no two workers write   *)
(* the same cache entry, although the feed lists a hash more than once.     *)
C14_SingleWriter ==
    /\ Cardinality(Running) <= (IF args.concurrency > 1 THEN args.concurrency ELSE 1)
    /\ \A j, k \in DOMAIN fut : j # k => hashes[j] # hashes[k]
    /\ \A j \in 1..Len(hashes) : \A k \in 1..Len(hashes) : j # k => hashes[j] # hashes[k]

C14_Witness ==
    /\ pc = "resolve" /\ args.concurrency = 2
    /\ \E j, k \in 1..Len(items) : j < k /\ items[j] = Item1 /\ items[k] = Item1
    /\ Len(hashes) = 2
    /\ fut[1].st = "write" /\ fut[2].st = "write"


(* What the resolution of hashes[k] comes to, from what is fixed for that   *)
(* hash alone: its cache entry as the run found it and the answers of the   *)
(* endpoint to its requests (the last one decides).                         *)
ExpectedDetail(k) ==
    LET h == hashes[k]
    IN  IF ~force /\ cache0[h].t = "file" THEN cache0[h].v
        ELSE IF fut[k].last = "ok" THEN DetailIn(endpoint[h])
        ELSE Null

IndexOf(h) == CHOOSE k \in 1..Len(hashes) : hashes[k] = h

ExpectedDetails == [h \in {hashes[k] : k \in 1..Len(hashes)} |-> ExpectedDetail(IndexOf(h))]

(* C15: in whatever order the resolutions run and complete, the mapping     *)
(* holds for each hash what that hash's own cache entry and answers give    *)
(* (while it is filled, and when it is returned), and the series is the one *)
(* made of the mapping returned, the items and the current balance.         *)
C15_OrderIndependent ==
    /\ pc = "resolve" =>
         \A h \in DOMAIN results : results[h] = ExpectedDetail(IndexOf(h))
    /\ pc = "build" => details = ExpectedDetails
    /\ Reconstructed =>
         /\ DOMAIN details = {hashes[k] : k \in 1..Len(hashes)}
         /\ series = SeriesOf(details)

(* The second hash was resolved and collected while the first was still     *)
(* being fetched.                                                           *)
C15_Witness ==
    /\ pc = "resolve" /\ Len(hashes) = 2
    /\ DOMAIN results = {hashes[2]}
    /\ fut[1].st = "fetch" /\ fut[1].reqs = 2
    /\ results[hashes[2]] # Null

---------------------------------------------------------------------------
(* The fallback of reconstruct_balance (SpecRecon). *)

(* The answer holds a balance: under "balance" at the top, or under the     *)
(* "result" or the "data" object.                                           *)
HoldsBalance(p) ==
    /\ IsDict(p)
    /\ \/ GetCi(p, <<"balance">>) # Null
       \/ GetCi(GetCi(p, <<"result">>), <<"balance">>) # Null
       \/ GetCi(GetCi(p, <<"data">>), <<"balance">>) # Null

(* No current balance is to be had: calibration is off, or the query failed *)
(* or its answer holds none.                                                *)
NoBalanceToBeHad ==
    \/ ~args.calibrate
    \/ Len(balreq) = 1 /\ (~balreq[1].ok \/ ~HoldsBalance(balreq[1].p))

(* C16: with calibration off no balance query is sent; with it off, or the  *)
(* query failed or without a balance, the start balance is 0, the first     *)
(* balance is the applied delta of the first record, no current balance is  *)
(* returned, and the whole series is made.                                  *)
C16_UncalibratedFallback ==
    Reconstructed =>
        /\ ~args.calibrate => balreq = <<>>
        /\ args.calibrate => Len(balreq) = 1
        /\ NoBalanceToBeHad =>
             /\ curr_balance = Null
             /\ start_bal = DecZero
             /\ Len(series) = Len(recs) /\ Len(series) >= 1
             /\ DecEq(BalanceOf(series[1]), AppliedDelta(series[1]))
             /\ exit_code = NoExit

C16_Witness ==
    /\ Reconstructed /\ args.calibrate
    /\ balreq = << [ok |-> TRUE, p |-> JDict([data |-> Null])] >>
    /\ Len(series) >= 2 /\ series[1].direction = "out"
    /\ BalanceOf(series[1]).c < 0 /\ curr_balance = Null

---------------------------------------------------------------------------
(* force_refresh (SpecResolver). *)

Finished(k) == fut[k].st \in {"done", "collected"}

(* What the network fetch of future k came to. *)
Fetched(k) ==
    IF fut[k].last = "ok" THEN DetailIn(endpoint[hashes[k]]) ELSE Null

(* With force_refresh set every hash is fetched from the network and none   *)
(* is answered from the cache.                                              *)
ForcedFetches(k) ==
    (force /\ Finished(k)) => fut[k].reqs >= 1 /\ fut[k].detail = Fetched(k)

(* With force_refresh unset, a readable entry is returned, with no request  *)
(* and no write, and stays as it was.                                       *)
CacheHitUntouched(k) ==
    (~force /\ cache0[hashes[k]].t = "file" /\ Finished(k)) =>
        /\ fut[k].detail = cache0[hashes[k]].v
        /\ fut[k].reqs = 0 /\ fut[k].w = "none"
        /\ cache[hashes[k]] = cache0[hashes[k]]

(* C17, as claimed: ... and with force_refresh set the entry holds the      *)
(* fetched result once the hash is resolved.                                *)
C17_ForcedRefreshOverwrites ==
    \A k \in DOMAIN fut :
        /\ ForcedFetches(k)
        /\ (force /\ Finished(k)) => cache[hashes[k]] = File(Fetched(k))
        /\ CacheHitUntouched(k)

(* C17, amended: ... the entry holds the fetched result when the write      *)
(* succeeded; a write that failed was passed over, and left the entry as it *)
(* was or unreadable.                                                       *)
C17_ForcedRefreshWrites ==
    \A k \in DOMAIN fut :
        /\ ForcedFetches(k)
        /\ (force /\ Finished(k)) =>
             /\ fut[k].w # "none"
             /\ fut[k].w = "ok" => cache[hashes[k]] = File(Fetched(k))
             /\ fut[k].w = "unchanged" => cache[hashes[k]] = cache0[hashes[k]]
             /\ fut[k].w = "corrupt" => cache[hashes[k]] = Corrupt
        /\ CacheHitUntouched(k)

C17_Witness ==
    /\ force /\ fut[2].st = "collected" /\ hashes[2] = "h1"
    /\ cache0["h1"] = File(DetailB) /\ endpoint["h1"] = DetailA
    /\ fut[2].w = "ok" /\ cache["h1"] = File(DetailA)
    /\ results["h1"] = DetailA

---------------------------------------------------------------------------
(* The input of reconstruct_balance after the call (SpecRecon). *)

(* C18: after reconstruct_balance the input list is what build_records      *)
(* made, in its order and with every balance unset, and each element of the *)
(* series is its input record with the balance set and nothing else changed *)
C18_InputNotMutated ==
    Reconstructed =>
        /\ recs = BuildRecordsOf(args.address, items, details)
        /\ \A n \in 1..Len(recs) : recs[n].balance = Null
        /\ Len(series) = Len(recs)
        /\ \A k \in 1..Len(series) :
             /\ series[k].balance # Null
             /\ [series[k] EXCEPT !.balance = Null] = recs[order[k]]

C18_Witness ==
    /\ Reconstructed /\ Len(recs) = 3
    /\ order[1] # 1
    /\ series[1].balance # Null /\ series[3].balance # series[1].balance
    /\ \A n \in 1..3 : recs[n].balance = Null

---------------------------------------------------------------------------
(* The state of the pagination (SpecPager). *)

(* The items of the first k pages fetched, in the order of the requests. *)
RECURSIVE ConcatPages(_)
ConcatPages(k) == IF k = 0 THEN <<>> ELSE ConcatPages(k - 1) \o pagelog[k].items

SuccessfulRequests == {j \in 1..Len(reqlog) : reqlog[j].ok}

C19_State ==
    /\ \A i, j \in 1..Len(reqlog) :
         reqlog[i].page = reqlog[j].page => reqlog[i].token = reqlog[j].token
    /\ \A i, j \in 1..Len(reqlog) : i < j => reqlog[i].page <= reqlog[j].page
    /\ Cardinality(SuccessfulRequests) = Len(pagelog)
    /\ \A j \in SuccessfulRequests : \A i \in 1..Len(reqlog) :
         reqlog[i].page = reqlog[j].page => i <= j
    /\ page = Len(pagelog)
    /\ token = (IF pagelog = <<>> THEN Null ELSE pagelog[Len(pagelog)].next)
    /\ out = ConcatPages(Len(pagelog))
    /\ pc = "hashes" => items = ConcatPages(Len(pagelog))

C19_Step ==
    (token' # token \/ page' # page \/ out' # out) =>
        /\ outcome' = "ok"
        /\ Len(reqlog') = Len(reqlog) + 1 /\ reqlog'[Len(reqlog')].ok
        /\ page' = page + 1
        /\ out' = out \o pagelog'[Len(pagelog')].items

(* C19: all requests for a page carry one token; the token, the page        *)
(* counter and the items gathered change only in a step that fetches a page *)
(* successfully; and the items returned are the items of the successfully   *)
(* fetched pages, in the order of the requests, each page once.             *)
C19_AdvanceOnSuccess == []C19_State /\ [][C19_Step]_vars

C19_Witness ==
    /\ pc = "hashes" /\ Len(pagelog) = 2 /\ Len(items) = 3
    /\ \E i, j \in 1..Len(reqlog) :
         /\ i < j /\ reqlog[i].page = 1 /\ reqlog[j].page = 1
         /\ ~reqlog[i].ok /\ reqlog[j].ok /\ reqlog[i].token = Txt("t1")
    /\ \E i \in 1..Len(reqlog) : reqlog[i].page = 0 /\ ~reqlog[i].ok

---------------------------------------------------------------------------
(* Hashes the feed lists more than once, in a run of main() (Spec). *)

(* C20: no two records of the series have the same hash, so the delta of a  *)
(* hash enters the running balance at most once.                            *)
C20_OneRecordPerHash ==
    Reconstructed =>
        \A j, k \in 1..Len(series) : j # k => series[j].hash # series[k].hash

=============================================================================
